---- MODULE Spec2Model ----
(***************************************************************************)
(* GeoPulse (app.py): the /run route, the background pipeline runner       *)
(* run_pipeline_background and the process-wide `pipeline` record.         *)
(*                                                                         *)
(* Flask serves every request on its own thread and /run starts the        *)
(* runner on a further daemon thread, so the handlers and the runners      *)
(* interleave at the granularity of one read or one write of the shared    *)
(* `pipeline` dict.  Program counters are named after the source line of   *)
(* app.py that the thread executes next (L112 = about to run line 112);    *)
(* W159 is the wait inside subprocess.run, R96/R107/R170/R179 are the four *)
(* returns of the runner, X115 is the runner killed by an exception raised *)
(* at line 115, and A277/A303/A500 are the answers of the route that start *)
(* no runner ("already_running", the 400 of line 303, an uncaught          *)
(* exception).                                                             *)
(*                                                                         *)
(* Further parts: the handler of /api/status (S259..S356, one read of      *)
(* shared state per step), the listing of /api/sites with load_sites, and  *)
(* of scripts/scoring.py the image count test and the two normalisations.  *)
(* Specifications:                                                         *)
(*   Spec         /run requests and direct calls of the runner             *)
(*   SpecRoute    /run requests only                                       *)
(*   SpecParams   /run requests with out-of-range and renamed parameters   *)
(*   SpecStatus   /run requests with a client polling /api/status          *)
(*   SpecObserved the same over MaxReqs requests                           *)
(*   SpecSites    /api/sites on any stored collection                      *)
(*   SpecScoring  the normalisations of scoring.py on any field            *)
(***************************************************************************)
EXTENDS Integers, Sequences, FiniteSets, TLC

\* number of calls (HTTP /run requests and direct runner calls) in a behaviour
MaxReqs == 2

Reqs == 1..MaxReqs

\* number of /run requests in a behaviour with a client polling /api/status
MaxPolledReqs == 1

PolledReqs == 1..MaxPolledReqs

\* Python's None, as it appears in pipeline["error"] and pipeline["last_run"]
None == "None"

(***************************************************************************)
(* Parameters.  A parameter dict is a function from key names to numbers.  *)
(* int-valued keys hold the integer, float-valued keys (weight_lst) hold   *)
(* the value in tenths.                                                    *)
(***************************************************************************)
DEFAULT_PARAMS ==
    [cloud_cover |-> 20, weight_lst |-> 5, num_sites |-> 10,
     percentile |-> 70, lst_min |-> 20, lst_max |-> 60]

\* IEEE infinity, as float("1e999") yields it, in the tenths scale
Infinity == 1000000

(***************************************************************************)
(* JSON values of an override payload: [t |-> tag, v |-> number].          *)
(*   int     the JSON integer v                                            *)
(*   float   the JSON float v/10                                           *)
(*   numstr  the JSON string holding the decimal literal of v              *)
(*   str     a JSON string that is not a number                            *)
(*   null    JSON null                                                     *)
(*   inf     the float infinity (json.loads("1e999"))                      *)
(*   absent  the key is not in the payload                                 *)
(***************************************************************************)
JInt(n)    == [t |-> "int", v |-> n]
JFloat(n)  == [t |-> "float", v |-> n]
JNumStr(n) == [t |-> "numstr", v |-> n]
JStr       == [t |-> "str", v |-> 0]
JNull      == [t |-> "null", v |-> 0]
JInf       == [t |-> "inf", v |-> 0]
Absent     == [t |-> "absent", v |-> 0]

Ok(n)     == [ok |-> TRUE, val |-> n, exc |-> None]
Raise(e)  == [ok |-> FALSE, val |-> 0, exc |-> e]

\* truncation toward zero of x/10, as int() does on a float
TruncTenths(x) == IF x >= 0 THEN x \div 10 ELSE -((-x) \div 10)

\* Python int(x)
IntConv(x) ==
    CASE x.t = "int"    -> Ok(x.v)
      [] x.t = "float"  -> Ok(TruncTenths(x.v))
      [] x.t = "numstr" -> Ok(x.v)
      [] x.t = "str"    -> Raise("ValueError")
      [] x.t = "null"   -> Raise("TypeError")
      [] x.t = "inf"    -> Raise("OverflowError")

\* Python float(x), in tenths
FloatConv(x) ==
    CASE x.t = "int"    -> Ok(x.v * 10)
      [] x.t = "float"  -> Ok(x.v)
      [] x.t = "numstr" -> Ok(x.v * 10)
      [] x.t = "str"    -> Raise("ValueError")
      [] x.t = "null"   -> Raise("TypeError")
      [] x.t = "inf"    -> Ok(Infinity)

\* the keys a payload may carry: the ones run_pipeline reads, in the order of
\* lines 285-301, and the documented names lst_min/lst_max it does not read
ReadKeys == <<"cloud_cover", "weight_lst", "num_sites", "percentile",
              "min_lst", "max_lst">>
PayloadKeys == {ReadKeys[k] : k \in 1..Len(ReadKeys)} \cup {"lst_min", "lst_max"}

Conv(key, x) == IF key = "weight_lst" THEN FloatConv(x) ELSE IntConv(x)

EmptyPayload == [k \in PayloadKeys |-> Absent]

\* params[key] = value on a dict: the key is added when it is new
DictSet(d, key, val) ==
    [k \in (DOMAIN d) \cup {key} |-> IF k = key THEN val ELSE d[k]]

\* lines 283-301 from the k-th key on: the first conversion that raises ends
\* the parse with its exception
RECURSIVE ParseFrom(_, _, _)
ParseFrom(data, params, k) ==
    IF k > Len(ReadKeys) THEN [ok |-> TRUE, params |-> params, exc |-> None]
    ELSE LET key == ReadKeys[k]
         IN IF data[key].t = "absent" THEN ParseFrom(data, params, k + 1)
            ELSE LET c == Conv(key, data[key])
                 IN IF c.ok
                    THEN ParseFrom(data, DictSet(params, key, c.val), k + 1)
                    ELSE [ok |-> FALSE, params |-> params, exc |-> c.exc]

\* lines 279-303: the parameters of the run, or the exception of the parse
ParseParams(method, data) ==
    IF method = "POST" THEN ParseFrom(data, DEFAULT_PARAMS, 1)
    ELSE [ok |-> TRUE, params |-> DEFAULT_PARAMS, exc |-> None]

\* the except clause of line 302
Caught == {"ValueError", "TypeError"}

\* the requests the model issues
SampleRequests ==
    { [method |-> "GET",  data |-> EmptyPayload],
      [method |-> "POST", data |-> [EmptyPayload EXCEPT !["num_sites"] = JInt(3),
                                                        !["cloud_cover"] = JNumStr(30)]],
      [method |-> "POST", data |-> [EmptyPayload EXCEPT !["cloud_cover"] = JStr]],
      [method |-> "POST", data |-> [EmptyPayload EXCEPT !["num_sites"] = JNull]],
      [method |-> "POST", data |-> [EmptyPayload EXCEPT !["cloud_cover"] = JInf]],
      [method |-> "POST", data |-> [EmptyPayload EXCEPT !["lst_min"] = JStr]] }

\* p.get(key, default)
DictGet(d, key, default) == IF key \in DOMAIN d THEN d[key] ELSE default

\* lines 118-137: the environment handed to the scripts, for the modelled keys
Env(p) ==
    [GEOPULSE_CLOUD_COVER |-> p["cloud_cover"],
     GEOPULSE_WEIGHT_LST  |-> p["weight_lst"],
     GEOPULSE_NUM_SITES   |-> p["num_sites"],
     GEOPULSE_PERCENTILE  |-> p["percentile"],
     GEOPULSE_MIN_LST     |-> DictGet(p, "min_lst", 20),
     GEOPULSE_MAX_LST     |-> DictGet(p, "max_lst", 60)]


\* requests whose values int() accepts: out of range (num_sites < 1,
\* percentile above 100) or under the names of DEFAULT_PARAMS (lst_min, lst_max)
ParamRequests ==
    { [method |-> "GET",  data |-> EmptyPayload],
      [method |-> "POST", data |-> [EmptyPayload EXCEPT !["num_sites"] = JInt(-1)]],
      [method |-> "POST", data |-> [EmptyPayload EXCEPT !["percentile"] = JInt(150)]],
      [method |-> "POST", data |-> [EmptyPayload EXCEPT !["lst_min"] = JInt(30),
                                                        !["lst_max"] = JInt(50)]] }

\* the requests of the specification with a polling client
PolledRequests == { [method |-> "GET",  data |-> EmptyPayload] }

\* the parameter dicts run_pipeline hands to the runner for those requests
RoutedParams ==
    { ParseParams(q.method, q.data).params :
        q \in {x \in ParamRequests : ParseParams(x.method, x.data).ok} }

(***************************************************************************)
(* scoring.py.  A field is the sequence of the values of the unmasked      *)
(* pixels of an image, in degrees (LST) or in whole units.                 *)
(***************************************************************************)
\* the most images the Landsat collection holds, and pixels a field holds
MaxImages == 1
MaxPixels == 3

PixelValues == {20, 30, 40, 60}

Fields == UNION { [1..n -> PixelValues] : n \in 0..MaxPixels }

FieldMin(f) == CHOOSE v \in {f[k] : k \in DOMAIN f} : \A k \in DOMAIN f : v <= f[k]
FieldMax(f) == CHOOSE v \in {f[k] : k \in DOMAIN f} : \A k \in DOMAIN f : v >= f[k]

\* ee.Image.divide: the Earth Engine operator yields 0 where the divisor is 0
EEDivide(a, b) == IF b = 0 THEN 0 ELSE a \div b

\* scoring.py 91-100 and 121-130: reduceRegion(minMax), then
\* subtract(min).divide(max - min).multiply(100), with the factor 100 applied
\* before the integer division; `zero_div` records that the divisor was 0.
\* With every pixel masked the reducer yields None twice and sorted() raises.
Normalize(f) ==
    IF f = <<>>
    THEN [ok |-> FALSE, exc |-> "TypeError", score |-> <<>>, zero_div |-> FALSE]
    ELSE LET mn == FieldMin(f)
             mx == FieldMax(f)
         IN [ok |-> TRUE, exc |-> None,
             score |-> [k \in DOMAIN f |-> EEDivide((f[k] - mn) * 100, mx - mn)],
             zero_div |-> (mx - mn = 0)]

\* the message of scoring.py line 82
NoImages == "ValueError: No images found. Try widening date range or cloud cover."

\* get_lst_score with the test of lines 81-82 left out
get_lst_score_default(count, lst) == Normalize(lst)

\* get_lst_score, scoring.py 55-102, for `count` images whose median is lst
get_lst_score(count, lst) ==
    IF count = 0
    THEN [ok |-> FALSE, exc |-> NoImages, score |-> <<>>, zero_div |-> FALSE]
    ELSE Normalize(lst)

\* get_grid_proximity_score, scoring.py 105-132, for the population field pop
get_grid_proximity_score(pop) == Normalize(pop)

(***************************************************************************)
(* scored_sites.geojson and load_sites (app.py 311-357).  A feature holds  *)
(* its GPS property in hundredths, or has none; a listed site holds its    *)
(* gps in tenths.                                                          *)
(***************************************************************************)
\* the most features a stored collection holds in the listing specification
MaxFeatures == 3

Feature(g) == [has_gps |-> TRUE, GPS |-> g]
NoGPS      == [has_gps |-> FALSE, GPS |-> 0]

\* line 339: props.get('GPS', props.get('gps', 50))
GpsOf(feat) == IF feat.has_gps THEN feat.GPS ELSE 50 * 100

\* round(x, 1) of hundredths, in tenths; a tie goes to the even neighbour
Round1(g) ==
    LET q   == g \div 10
        rem == g % 10
    IN IF rem < 5 THEN q
       ELSE IF rem > 5 THEN q + 1
       ELSE IF q % 2 = 0 THEN q ELSE q + 1

\* lines 329-333, on hundredths
tier(gps) ==
    IF gps >= 85 * 100 THEN "Excellent"
    ELSE IF gps >= 70 * 100 THEN "Very Good"
    ELSE IF gps >= 60 * 100 THEN "Good"
    ELSE "Moderate"

\* lines 336-351: one site per feature, in the order of the file; `name` is
\* the i+1 of "Site R-{i+1}"
Built(fc) ==
    [i \in 1..Len(fc) |->
        [rank |-> i, name |-> i,
         gps  |-> Round1(GpsOf(fc[i])),
         tier |-> tier(GpsOf(fc[i]))]]

\* line 353: list.sort(key=gps, reverse=True) is stable
RECURSIVE InsertDesc(_, _)
InsertDesc(x, s) ==
    IF s = <<>> THEN <<x>>
    ELSE IF Head(s).gps >= x.gps THEN <<Head(s)>> \o InsertDesc(x, Tail(s))
    ELSE <<x>> \o s

RECURSIVE SortDesc(_)
SortDesc(s) ==
    IF s = <<>> THEN <<>>
    ELSE InsertDesc(s[Len(s)], SortDesc(SubSeq(s, 1, Len(s) - 1)))

\* lines 354-355
Reranked(s) == [i \in 1..Len(s) |-> [s[i] EXCEPT !.rank = i]]

\* s[:num] of Python: a negative num counts from the end
Slice(s, num) ==
    LET n    == Len(s)
        stop == IF num >= 0 THEN (IF num < n THEN num ELSE n)
                ELSE (IF n + num > 0 THEN n + num ELSE 0)
    IN SubSeq(s, 1, stop)

\* load_sites for the file (exists, content fc) and pipeline["params"]
load_sites(exists, fc, params) ==
    IF ~exists THEN <<>>
    ELSE Slice(Reranked(SortDesc(Built(fc))), DictGet(params, "num_sites", 10))

\* the median LST fields of the runs of the model
RunFields == { <<>>, <<20, 60>> }

\* the collections the runs of the model store: extract_top_sites
\* (scoring.py 196-225) yields at most n features, in sampling order
StoredCollections == { <<>>, <<Feature(7000), Feature(8496)>> }
Extracted(n) == {fc \in StoredCollections : Len(fc) <= n}

\* the features and collections of the listing specification
SiteFeatures == {Feature(8496), Feature(8500), Feature(7000), Feature(5990), NoGPS}
SiteCollections == UNION { [1..n -> SiteFeatures] : n \in 0..MaxFeatures }

(***************************************************************************)
(* The pipeline steps (lines 142-153) and what run_pipeline_background     *)
(* writes about them.                                                      *)
(***************************************************************************)
Steps ==
    << [name     |-> "Fetching satellite data & scoring sites",
        script   |-> "scoring.py",
        failed   |-> "Failed: Fetching satellite data & scoring sites",
        stderr   |-> "scoring.py: stderr",
        progress |-> 60],
       [name     |-> "Generating interactive map",
        script   |-> "visualize.py",
        failed   |-> "Failed: Generating interactive map",
        stderr   |-> "visualize.py: stderr",
        progress |-> 100] >>

\* datetime.now().strftime(...) of line 174
Timestamp == "timestamp"

(***************************************************************************)
(* State.                                                                  *)
(*   pipeline         the module-level dict of lines 71-79                 *)
(*   geojson, mapfile whether outputs/scored_sites.geojson and             *)
(*                    outputs/sweet_spot_map.html exist                    *)
(*   last_run_params  outputs/last_run_params.json: exists and content     *)
(*   outdir_ok        whether os.makedirs(OUTPUT_DIR, exist_ok=True)       *)
(*                    succeeds on this host                                *)
(*   th               one record per call: the request, its answer and the *)
(*                    locals of the runner thread it started               *)
(*   features         the features of scored_sites.geojson                 *)
(*   rd               the handler of GET /api/status: its position and the *)
(*                    values it has read so far; at S259 with sites >= 0   *)
(*                    it holds the answer it gave last                     *)
(*   listing          the answer of GET /api/sites                         *)
(*   raster           one execution of the normalisations of scoring.py    *)
(***************************************************************************)
VARIABLES pipeline, geojson, mapfile, last_run_params, outdir_ok, th,
          features, rd, listing, raster

vars == <<pipeline, geojson, mapfile, last_run_params, outdir_ok, th,
          features, rd, listing, raster>>

\* params=None of line 82: a dict without keys is as falsy as None in line 110
NoParams == [k \in {} |-> 0]

\* a call that has not been made yet
\*   req, resp        the request and the answer of the route
\*   params, force    the arguments of run_pipeline_background
\*   p, i, e          its locals p, the index of `step` in `steps`, and e
\*   launched         how many scripts the runner has started (line 159)
\*   succeeded        how many of them ended with exit code 0 (line 162)
\*   images           the "Images found" of its scoring.py, -1 before
NewCall ==
    [pc |-> "new", req |-> [method |-> "GET", data |-> EmptyPayload],
     resp |-> None, params |-> NoParams, force |-> FALSE,
     p |-> NoParams, i |-> 1, e |-> None, launched |-> 0, succeeded |-> 0,
     images |-> -1]

\* api_status before its first read
NewQuery ==
    [pc |-> "S259", status |-> None, step |-> None, progress |-> -1,
     last_run |-> None, error |-> None, map_ready |-> FALSE,
     data |-> <<>>, sites |-> -1]

NoListing == [served |-> FALSE, sites |-> <<>>]

NoRaster == [lst |-> <<>>, pop |-> <<>>, lst_score |-> <<>>, grid_score |-> <<>>,
             pc |-> "off", zero_div |-> FALSE]

\* the pipeline record of lines 71-79
NewPipeline ==
    [status |-> "idle", step |-> "", last_run |-> None,
     error |-> None, progress |-> 0,
     params |-> DEFAULT_PARAMS, has_run |-> FALSE]

\* the server starts with no outputs or with those of a previous session
Init ==
    /\ pipeline = NewPipeline
    /\ geojson \in BOOLEAN
    /\ mapfile = geojson
    /\ last_run_params = [exists |-> mapfile, content |-> DEFAULT_PARAMS]
    /\ outdir_ok \in BOOLEAN
    /\ geojson => outdir_ok
    /\ th = [r \in Reqs |-> NewCall]
    /\ features = IF geojson THEN <<Feature(7000), Feature(8496)>> ELSE <<>>
    /\ rd = NewQuery
    /\ listing = NoListing
    /\ raster = NoRaster

\* the server with the outputs of a previous session, any stored collection
\* and the parameters of any request the route lets through
InitSites ==
    /\ \E p \in RoutedParams : pipeline = [NewPipeline EXCEPT !.params = p]
    /\ geojson \in BOOLEAN
    /\ mapfile = geojson
    /\ last_run_params = [exists |-> mapfile, content |-> DEFAULT_PARAMS]
    /\ outdir_ok = TRUE
    /\ th = [r \in Reqs |-> NewCall]
    /\ features \in (IF geojson THEN SiteCollections ELSE {<<>>})
    /\ rd = NewQuery
    /\ listing = NoListing
    /\ raster = NoRaster

\* scoring.py about to normalise: the median LST field of the collection and
\* the population field
InitScoring ==
    /\ pipeline = NewPipeline
    /\ geojson = FALSE
    /\ mapfile = FALSE
    /\ last_run_params = [exists |-> FALSE, content |-> DEFAULT_PARAMS]
    /\ outdir_ok = TRUE
    /\ th = [r \in Reqs |-> NewCall]
    /\ features = <<>>
    /\ rd = NewQuery
    /\ listing = NoListing
    /\ \E f, g \in Fields :
          raster = [NoRaster EXCEPT !.lst = f, !.pop = g, !.pc = "lst"]

Set(r, upd) == th' = [th EXCEPT ![r] = upd]
At(r, line) == th[r].pc = line
Files == <<geojson, mapfile, last_run_params, outdir_ok, features>>
Served == <<rd, listing, raster>>

\* the runner returns (or dies): its frame, and the request that started it,
\* are gone; what it did stays on record
Return(r, line) ==
    Set(r, [NewCall EXCEPT !.pc = line, !.resp = th[r].resp, !.force = th[r].force,
                           !.launched = th[r].launched,
                           !.succeeded = th[r].succeeded,
                           !.images = th[r].images])

(***************************************************************************)
(* Entry points.  Calls are made in the order of their ids.                *)
(***************************************************************************)
Fresh(r) == At(r, "new") /\ (IF r = 1 THEN TRUE ELSE th[r - 1].pc # "new")

\* lines 279-308 with the answer held back until the runner has returned
Handle_joins(r, q) ==
    LET res == ParseParams(q.method, q.data)
    IN CASE res.ok ->
              Set(r, [th[r] EXCEPT !.pc = "L95", !.req = q,
                                   !.params = res.params, !.force = TRUE])
         [] ~res.ok /\ res.exc \in Caught ->
              Set(r, [th[r] EXCEPT !.pc = "A303", !.req = q, !.resp = "error_400"])
         [] OTHER ->
              Set(r, [th[r] EXCEPT !.pc = "A500", !.req = q, !.resp = "error_500"])

\* lines 279-308 for request q: parse the overrides; on success start the
\* runner thread with force=True and answer "started"; a caught exception is
\* answered 400, any other exception leaves the handler and Flask answers 500
Handle(r, q) ==
    LET res == ParseParams(q.method, q.data)
    IN CASE res.ok ->
              Set(r, [th[r] EXCEPT !.pc = "L95", !.req = q, !.resp = "started",
                                   !.params = res.params, !.force = TRUE])
         [] ~res.ok /\ res.exc \in Caught ->
              Set(r, [th[r] EXCEPT !.pc = "A303", !.req = q, !.resp = "error_400"])
         [] OTHER ->
              Set(r, [th[r] EXCEPT !.pc = "A500", !.req = q, !.resp = "error_500"])

\* lines 276-308 for request q
Serve(r, q) ==
    IF pipeline.status = "running"
    THEN Set(r, [th[r] EXCEPT !.pc = "A277", !.req = q,
                              !.resp = "already_running"])
    ELSE Handle(r, q)

\* run_pipeline, lines 276-308, serving GET or POST /run.  Line 276 is the
\* handler's only access to shared state, so the handler is one step.
run_pipeline(r) ==
    /\ Fresh(r)
    /\ \E q \in SampleRequests : Serve(r, q)
    /\ UNCHANGED <<pipeline, Files, Served>>

\* run_pipeline for the requests of ParamRequests
run_pipeline_params(r) ==
    /\ Fresh(r)
    /\ \E q \in ParamRequests : Serve(r, q)
    /\ UNCHANGED <<pipeline, Files, Served>>

\* run_pipeline for the request the page sends while a client polls
run_pipeline_polled(r) ==
    /\ Fresh(r)
    /\ \E q \in PolledRequests : Serve(r, q)
    /\ UNCHANGED <<pipeline, Files, Served>>

\* run_pipeline_background() called with its defaults params=None, force=False
DirectCall(r) ==
    /\ Fresh(r)
    /\ Set(r, [th[r] EXCEPT !.pc = "L95", !.params = NoParams, !.force = FALSE])
    /\ UNCHANGED <<pipeline, Files, Served>>

(***************************************************************************)
(* run_pipeline_background, lines 95-179.  One action per read or write of *)
(* shared state; statements on locals ride with the shared access next to  *)
(* them.                                                                   *)
(***************************************************************************)
SetField(f, v) == pipeline' = [pipeline EXCEPT ![f] = v]

\* lines 95-96: the guard
L95(r) ==
    /\ At(r, "L95")
    /\ IF pipeline.status = "running"
       THEN Return(r, "R96")
       ELSE Set(r, [th[r] EXCEPT !.pc = "L98"])
    /\ UNCHANGED <<pipeline, Files, Served>>

\* line 102 with the flag the wrong way round
Reuse_inverted(geojson_ok, map_ok, force) == geojson_ok /\ map_ok /\ force

\* line 102: whether the outputs are reused
Reuse(geojson_ok, map_ok, force) == geojson_ok /\ map_ok /\ ~force

\* lines 98-102.  No code of the repository deletes an output, so the two
\* os.path.exists calls see what one look at both files sees.
L98(r) ==
    /\ At(r, "L98")
    /\ Set(r, [th[r] EXCEPT !.pc = IF Reuse(geojson, mapfile, th[r].force)
                                   THEN "L103" ELSE "L110"])
    /\ UNCHANGED <<pipeline, Files, Served>>

\* lines 103-107: the reuse short-circuit
L103(r) ==
    /\ At(r, "L103")
    /\ SetField("status", "done")
    /\ Set(r, [th[r] EXCEPT !.pc = "L104"])
    /\ UNCHANGED <<Files, Served>>

L104(r) ==
    /\ At(r, "L104")
    /\ SetField("step", "Outputs already exist")
    /\ Set(r, [th[r] EXCEPT !.pc = "L105"])
    /\ UNCHANGED <<Files, Served>>

L105(r) ==
    /\ At(r, "L105")
    /\ SetField("progress", 100)
    /\ Set(r, [th[r] EXCEPT !.pc = "L106"])
    /\ UNCHANGED <<Files, Served>>

L106(r) ==
    /\ At(r, "L106")
    /\ SetField("last_run", "Previous session")
    /\ Return(r, "R107")
    /\ UNCHANGED <<Files, Served>>

\* lines 110-111: p = params or pipeline["params"]; pipeline["params"] = p.
\* With params given the read is of a local and the write follows at once;
\* without, the read of the shared dict and the write are two steps.
L110(r) ==
    /\ At(r, "L110")
    /\ IF DOMAIN th[r].params # {}
       THEN /\ SetField("params", th[r].params)
            /\ Set(r, [th[r] EXCEPT !.pc = "L112", !.p = th[r].params])
       ELSE /\ UNCHANGED pipeline
            /\ Set(r, [th[r] EXCEPT !.pc = "L111", !.p = pipeline.params])
    /\ UNCHANGED <<Files, Served>>

L111(r) ==
    /\ At(r, "L111")
    /\ SetField("params", th[r].p)
    /\ Set(r, [th[r] EXCEPT !.pc = "L112"])
    /\ UNCHANGED <<Files, Served>>

L112(r) ==
    /\ At(r, "L112")
    /\ SetField("status", "running")
    /\ Set(r, [th[r] EXCEPT !.pc = "L113"])
    /\ UNCHANGED <<Files, Served>>

L113(r) ==
    /\ At(r, "L113")
    /\ SetField("error", None)
    /\ Set(r, [th[r] EXCEPT !.pc = "L114"])
    /\ UNCHANGED <<Files, Served>>

\* lines 114-153.  Line 115 is outside every try: when os.makedirs raises,
\* the exception ends the thread; otherwise the environment and the steps
\* are built, all on locals.
L114(r) ==
    /\ At(r, "L114")
    /\ SetField("progress", 0)
    /\ IF outdir_ok
       THEN Set(r, [th[r] EXCEPT !.pc = "L156", !.i = 1])
       ELSE Return(r, "X115")
    /\ UNCHANGED <<Files, Served>>

\* lines 156-160: the label is written and subprocess.run starts the script
L156(r) ==
    /\ At(r, "L156")
    /\ SetField("step", Steps[th[r].i].name)
    /\ Set(r, [th[r] EXCEPT !.pc = "W159", !.launched = @ + 1])
    /\ UNCHANGED <<Files, Served>>

\* scoring.py 229-256 up to its exit, for `count` images with median lst;
\* `fault` is any other exception (Earth Engine, the network)
ScoringMain(count, lst, fault) ==
    LET res == get_lst_score(count, lst)
    IN IF ~res.ok /\ res.exc = NoImages THEN [rc |-> 1, stderr |-> NoImages]
       ELSE IF ~res.ok \/ fault THEN [rc |-> 1, stderr |-> Steps[1].stderr]
       ELSE [rc |-> 0, stderr |-> ""]

\* the script ends with exit code 0: scoring.py has written
\* scored_sites.geojson (scoring.py 252-254) with at most NUM_SITES features,
\* visualize.py the map (visualize.py 286)
StepSucceeds(r) ==
    /\ At(r, "W159")
    /\ IF th[r].i = 1
       THEN \E count \in 0..MaxImages, lst \in RunFields :
               /\ ScoringMain(count, lst, FALSE).rc = 0
               /\ Set(r, [th[r] EXCEPT !.pc = "L164", !.succeeded = @ + 1,
                                        !.images = count])
               /\ \E fc \in Extracted(Env(th[r].p).GEOPULSE_NUM_SITES) :
                      features' = fc
               /\ geojson' = TRUE
               /\ UNCHANGED mapfile
       ELSE /\ Set(r, [th[r] EXCEPT !.pc = "L164", !.succeeded = @ + 1])
            /\ mapfile' = TRUE
            /\ UNCHANGED <<geojson, features>>
    /\ UNCHANGED <<pipeline, last_run_params, outdir_ok, Served>>

\* a failing script that removes its output before it exits
StepFails_cleans(r) ==
    /\ At(r, "W159")
    /\ Set(r, [th[r] EXCEPT !.pc = "L166", !.e = Steps[th[r].i].stderr])
    /\ geojson' = (geojson /\ th[r].i # 1)
    /\ mapfile' = (mapfile /\ th[r].i # 2)
    /\ UNCHANGED <<pipeline, last_run_params, outdir_ok, features, Served>>

\* the script ends with a non-zero exit code or subprocess.run raises: lines
\* 162-163 and 165; the scripts write their output last, so no file changes
StepFails(r) ==
    /\ At(r, "W159")
    /\ IF th[r].i = 1
       THEN \E count \in 0..MaxImages, lst \in RunFields, fault \in BOOLEAN :
               LET main == ScoringMain(count, lst, fault)
               IN /\ main.rc # 0
                  /\ Set(r, [th[r] EXCEPT !.pc = "L166", !.e = main.stderr,
                                           !.images = count])
       ELSE Set(r, [th[r] EXCEPT !.pc = "L166", !.e = Steps[th[r].i].stderr])
    /\ UNCHANGED <<pipeline, Files, Served>>

\* line 164, then the next iteration of line 155
L164(r) ==
    /\ At(r, "L164")
    /\ SetField("progress", Steps[th[r].i].progress)
    /\ IF th[r].i < Len(Steps)
       THEN Set(r, [th[r] EXCEPT !.pc = "L156", !.i = @ + 1])
       ELSE Set(r, [th[r] EXCEPT !.pc = "L172"])
    /\ UNCHANGED <<Files, Served>>

\* lines 166-170: the except clause
L166(r) ==
    /\ At(r, "L166")
    /\ SetField("status", "error")
    /\ Set(r, [th[r] EXCEPT !.pc = "L167"])
    /\ UNCHANGED <<Files, Served>>

L167(r) ==
    /\ At(r, "L167")
    /\ SetField("step", Steps[th[r].i].failed)
    /\ Set(r, [th[r] EXCEPT !.pc = "L168"])
    /\ UNCHANGED <<Files, Served>>

\* line 168 without the return of line 170: the loop goes on
L168_continues(r) ==
    /\ At(r, "L168")
    /\ SetField("error", th[r].e)
    /\ IF th[r].i < Len(Steps)
       THEN Set(r, [th[r] EXCEPT !.pc = "L156", !.i = @ + 1])
       ELSE Return(r, "R170")
    /\ UNCHANGED <<Files, Served>>

\* line 168 with the dump of lines 177-178 done on the failure path too
L168_persists(r) ==
    /\ At(r, "L168")
    /\ SetField("error", th[r].e)
    /\ Return(r, "R170")
    /\ last_run_params' = [exists |-> TRUE, content |-> th[r].p]
    /\ UNCHANGED <<geojson, features, mapfile, outdir_ok, Served>>

L168(r) ==
    /\ At(r, "L168")
    /\ SetField("error", th[r].e)
    /\ Return(r, "R170")
    /\ UNCHANGED <<Files, Served>>

\* lines 172-179: every step succeeded
L172(r) ==
    /\ At(r, "L172")
    /\ SetField("status", "done")
    /\ Set(r, [th[r] EXCEPT !.pc = "L173"])
    /\ UNCHANGED <<Files, Served>>

L173(r) ==
    /\ At(r, "L173")
    /\ SetField("step", "Pipeline complete")
    /\ Set(r, [th[r] EXCEPT !.pc = "L174"])
    /\ UNCHANGED <<Files, Served>>

L174(r) ==
    /\ At(r, "L174")
    /\ SetField("last_run", Timestamp)
    /\ Set(r, [th[r] EXCEPT !.pc = "L175"])
    /\ UNCHANGED <<Files, Served>>

L175(r) ==
    /\ At(r, "L175")
    /\ SetField("has_run", TRUE)
    /\ Set(r, [th[r] EXCEPT !.pc = "L177"])
    /\ UNCHANGED <<Files, Served>>

\* lines 177-179: json.dump(p) into last_run_params.json
L177(r) ==
    /\ At(r, "L177")
    /\ last_run_params' = [exists |-> TRUE, content |-> th[r].p]
    /\ Return(r, "R179")
    /\ UNCHANGED <<pipeline, geojson, features, mapfile, outdir_ok, Served>>

\* a step of a runner thread
RunnerStep(r) ==
    \/ L95(r) \/ L98(r)
    \/ L110(r) \/ L112(r) \/ L113(r) \/ L114(r)
    \/ L156(r) \/ StepSucceeds(r) \/ StepFails(r) \/ L164(r)
    \/ L166(r) \/ L167(r) \/ L168(r)
    \/ L172(r) \/ L173(r) \/ L174(r) \/ L175(r) \/ L177(r)

\* a step of the application as it is deployed: the only caller of
\* run_pipeline_background is run_pipeline, with force=True (line 305)
RouteStep(r) == run_pipeline(r) \/ RunnerStep(r)

\* a step that only a call of the runner with its default arguments can take
DefaultsStep(r) ==
    \/ DirectCall(r)
    \/ L103(r) \/ L104(r) \/ L105(r) \/ L106(r)
    \/ L111(r)

NextRoute == \E r \in Reqs : RouteStep(r)

Next == \E r \in Reqs : RouteStep(r) \/ DefaultsStep(r)

\* the deployed application: every call is a /run request
SpecRoute == Init /\ [][NextRoute]_vars

\* the runner as a function: also called with its defaults
Spec == Init /\ [][Next]_vars

\* the deployed application under the requests of ParamRequests
NextParams == \E r \in Reqs : run_pipeline_params(r) \/ RunnerStep(r)

SpecParams == Init /\ [][NextParams]_vars

(***************************************************************************)
(* api_status, lines 252-266: the dict literal reads the five fields one   *)
(* after the other, then the map file, then calls load_sites, which reads  *)
(* scored_sites.geojson (lines 315-355) and then pipeline["params"] (line  *)
(* 356).  The handler has no guard: it runs in every state.                *)
(***************************************************************************)
Reads(upd) ==
    /\ rd' = upd
    /\ UNCHANGED <<pipeline, Files, th, listing, raster>>

\* line 259 of a handler that marks a finished run as seen
S259_resets ==
    /\ rd.pc = "S259"
    /\ rd' = [NewQuery EXCEPT !.pc = "S260", !.status = pipeline.status]
    /\ pipeline' = [pipeline EXCEPT
                       !.status = IF @ \in {"done", "error"} THEN "idle" ELSE @]
    /\ UNCHANGED <<Files, th, listing, raster>>

S259 ==
    /\ rd.pc = "S259"
    /\ Reads([NewQuery EXCEPT !.pc = "S260", !.status = pipeline.status])

S260 ==
    /\ rd.pc = "S260"
    /\ Reads([rd EXCEPT !.pc = "S261", !.step = pipeline.step])

S261 ==
    /\ rd.pc = "S261"
    /\ Reads([rd EXCEPT !.pc = "S262", !.progress = pipeline.progress])

S262 ==
    /\ rd.pc = "S262"
    /\ Reads([rd EXCEPT !.pc = "S263", !.last_run = pipeline.last_run])

S263 ==
    /\ rd.pc = "S263"
    /\ Reads([rd EXCEPT !.pc = "S264", !.error = pipeline.error])

S264 ==
    /\ rd.pc = "S264"
    /\ Reads([rd EXCEPT !.pc = "S315", !.map_ready = mapfile])

\* load_sites, lines 315-355: without the file the answer is complete
S315 ==
    /\ rd.pc = "S315"
    /\ IF geojson
       THEN Reads([rd EXCEPT !.pc = "S356", !.data = features])
       ELSE Reads([rd EXCEPT !.pc = "S259", !.sites = 0])

\* load_sites, lines 356-357, and the answer of line 258
S356 ==
    /\ rd.pc = "S356"
    /\ Reads([rd EXCEPT !.pc = "S259", !.data = <<>>,
                        !.sites = Len(load_sites(TRUE, rd.data, pipeline.params))])

api_status == S259 \/ S260 \/ S261 \/ S262 \/ S263 \/ S264 \/ S315 \/ S356

\* the deployed application with a client polling /api/status
NextStatus ==
    \/ \E r \in PolledReqs : run_pipeline_polled(r) \/ RunnerStep(r)
    \/ api_status

SpecStatus == Init /\ [][NextStatus]_vars

\* the same with every call a /run request: a client polls across two runs
NextObserved ==
    \/ \E r \in Reqs : run_pipeline_polled(r) \/ RunnerStep(r)
    \/ api_status

SpecObserved == Init /\ [][NextObserved]_vars

(***************************************************************************)
(* api_sites, lines 235-249: the listing of load_sites.                    *)
(***************************************************************************)
api_sites ==
    /\ ~listing.served
    /\ listing' = [served |-> TRUE,
                   sites  |-> load_sites(geojson, features, pipeline.params)]
    /\ UNCHANGED <<pipeline, Files, th, rd, raster>>

SpecSites == InitSites /\ [][api_sites]_vars

(***************************************************************************)
(* The two normalisations of scoring.py, in the order of lines 232-233.    *)
(***************************************************************************)
Scored(upd) ==
    /\ raster' = upd
    /\ UNCHANGED <<pipeline, Files, th, rd, listing>>

\* lst_score = get_lst_score()
LstScore ==
    /\ raster.pc = "lst"
    /\ \E count \in 0..MaxImages :
          LET res == get_lst_score(count, raster.lst)
          IN IF res.ok
             THEN Scored([raster EXCEPT !.pc = "grid", !.lst_score = res.score,
                                        !.zero_div = res.zero_div])
             ELSE Scored([raster EXCEPT !.pc = "failed"])

\* grid_score = get_grid_proximity_score()
GridScore ==
    /\ raster.pc = "grid"
    /\ LET res == get_grid_proximity_score(raster.pop)
       IN IF res.ok
          THEN Scored([raster EXCEPT !.pc = "done", !.grid_score = res.score,
                                     !.zero_div = @ \/ res.zero_div])
          ELSE Scored([raster EXCEPT !.pc = "failed"])

NextScoring == LstScore \/ GridScore

SpecScoring == InitScoring /\ [][NextScoring]_vars


(***************************************************************************)
(* Vocabulary of the properties.                                           *)
(***************************************************************************)
\* the runner of call r is between its entry and its return
Live(r) == th[r].pc \in {"L95", "L98", "L103", "L104", "L105", "L106",
                         "L110", "L111", "L112", "L113", "L114",
                         "L156", "W159", "L164", "L166", "L167", "L168",
                         "L172", "L173", "L174", "L175", "L177"}

\* the runner of call r has passed the guard of line 95 and has not returned
PastGuard(r) == Live(r) /\ th[r].pc # "L95"

\* the runner of call r has been started and has not yet written the outcome
\* (done or error) of its run
Pending(r) == th[r].pc \in {"L95", "L98", "L110", "L111", "L112", "L113",
                            "L114", "L156", "W159", "L164", "L166", "L172"}

\* the runner of call r has reset progress (line 114) and has not yet written
\* the outcome of its run
InSteps(r) == th[r].pc \in {"L156", "W159", "L164", "L166", "L172"}

\* call r takes this step
Moves(r) == th'[r] # th[r]

(***************************************************************************)
(* C1: of two run requests issued while no run is in progress, one is      *)
(* answered "started" and the other "already_running": two requests that   *)
(* were both answered "started" never both have a run that is still to     *)
(* reach its outcome.                                                      *)
(***************************************************************************)
C1_OneStarted ==
    \A r1, r2 \in Reqs :
        (r1 # r2 /\ th[r1].resp = "started" /\ th[r2].resp = "started")
            => ~(Pending(r1) /\ Pending(r2))

(***************************************************************************)
(* C2: at most one invocation of run_pipeline_background started by a run *)
(* request is past the "already running" guard at any time.                *)
(***************************************************************************)
C2_OneExecution ==
    Cardinality({r \in Reqs : th[r].force /\ PastGuard(r)}) <= 1

(***************************************************************************)
(* C3: when a step of a run fails, the runner writes status "error",       *)
(* leaves progress as it is from the detection of the failure to its       *)
(* return, starts no further script and returns at line 170; the script    *)
(* that failed is the last one it started.                                 *)
(***************************************************************************)
C3_FailedStepHalts ==
    /\ [](\A r \in Reqs :
            th[r].pc \in {"L166", "L167", "L168", "R170"}
                => th[r].launched = th[r].succeeded + 1)
    /\ [][\A r \in Reqs :
            /\ (th[r].pc = "W159" /\ th'[r].pc = "L166") => pipeline' = pipeline
            /\ (th[r].pc \in {"L166", "L167", "L168"} /\ Moves(r)) =>
                  /\ pipeline'.progress = pipeline.progress
                  /\ th'[r].launched = th[r].launched
                  /\ th'[r].pc \in {"L167", "L168", "R170"}
                  /\ (th[r].pc = "L166" => pipeline'.status = "error")
            /\ (th[r].pc = "R170" => ~Moves(r))]_vars

\* the scoring step of a run failed: status error, progress still 0, and the
\* map step was never started
C3_Witness ==
    \E r \in Reqs :
        /\ th[r].pc = "R170" /\ th[r].launched = 1 /\ th[r].succeeded = 0
        /\ pipeline.status = "error" /\ pipeline.progress = 0
        /\ pipeline.error = Steps[1].stderr

(***************************************************************************)
(* C4: within one run progress is set to each step's target only when the  *)
(* step has succeeded, and it never decreases between the run's reset of   *)
(* progress to 0 and the run's writing done or error.                      *)
(***************************************************************************)
C4_ProgressMonotone ==
    [][\A r \in Reqs :
          /\ (th[r].pc = "L164" /\ Moves(r)) =>
                /\ th[r].succeeded = th[r].i
                /\ pipeline'.progress = Steps[th[r].i].progress
          /\ (InSteps(r) /\ th'[r].pc \in {"L156", "W159", "L164", "L166", "L172"})
                => pipeline'.progress >= pipeline.progress]_vars

(***************************************************************************)
(* C5: whenever a full run has brought the status to "done", last_run is   *)
(* recorded and last_run_params.json holds the parameters that run used.   *)
(***************************************************************************)
C5_DoneHasParams ==
    \A r \in Reqs :
        (th[r].pc \in {"L173", "L174", "L175", "L177"} /\ pipeline.status = "done")
            => /\ pipeline.last_run = Timestamp
               /\ last_run_params = [exists |-> TRUE, content |-> th[r].p]

(***************************************************************************)
(* C6: last_run_params.json changes only in the step of line 177 of a      *)
(* runner all of whose scripts ended with exit code 0, and then to that     *)
(* runner's parameters: no failed run, rejected request or reuse           *)
(* short-circuit writes it.                                                *)
(***************************************************************************)
C6_ParamsFileOnlyOnSuccess ==
    [][last_run_params' # last_run_params =>
          \E r \in Reqs :
              /\ th[r].pc = "L177" /\ th'[r].pc = "R179"
              /\ th[r].succeeded = Len(Steps)
              /\ last_run_params' = [exists |-> TRUE, content |-> th[r].p]]_vars

\* a run with overridden parameters has completed and persisted them, and
\* another call has ended in error, at the guard or in the short-circuit
C6_Witness ==
    /\ last_run_params.exists
    /\ last_run_params.content # DEFAULT_PARAMS
    /\ \E r1, r2 \in Reqs :
          /\ th[r1].pc = "R179"
          /\ th[r2].pc \in {"R170", "R96", "R107"}

(***************************************************************************)
(* C7: a non-forced call that passes the guard while both output files     *)
(* exist takes the short-circuit of lines 103-107: it writes status "done" *)
(* and progress 100, returns at line 107 and starts no script.             *)
(***************************************************************************)
C7_ReuseShortCircuit ==
    /\ [](\A r \in Reqs :
            th[r].pc \in {"L103", "L104", "L105", "L106", "R107"}
                => th[r].launched = 0)
    /\ [][\A r \in Reqs :
            /\ (th[r].pc = "L98" /\ Moves(r) /\ ~th[r].force /\ geojson /\ mapfile)
                  => th'[r].pc = "L103"
            /\ (th[r].pc = "L103" /\ Moves(r)) => pipeline'.status = "done"
            /\ (th[r].pc = "L105" /\ Moves(r)) => pipeline'.progress = 100
            /\ (th[r].pc \in {"L103", "L104", "L105", "L106"} /\ Moves(r))
                  => th'[r].pc \in {"L104", "L105", "L106", "R107"}]_vars

\* a non-forced call has returned from the short-circuit with no script run
C7_Witness ==
    \E r \in Reqs :
        /\ th[r].pc = "R107" /\ ~th[r].force /\ th[r].launched = 0
        /\ pipeline.status = "done" /\ pipeline.progress = 100
        /\ geojson /\ mapfile

(***************************************************************************)
(* C8: whenever the status is "running", the error field is null.          *)
(***************************************************************************)
C8_RunningHasNoError ==
    pipeline.status = "running" => pipeline.error = None

(***************************************************************************)
(* C9: no run leaves the status at "running" for ever: when no runner is   *)
(* live any more, the status is not "running".                             *)
(***************************************************************************)
C9_RunReachesOutcome ==
    (\A r \in Reqs : ~Live(r)) => pipeline.status # "running"

(***************************************************************************)
(* C10: a run request whose payload holds, for a numeric parameter, a      *)
(* value that int()/float() rejects is answered with the configuration     *)
(* error of line 303 and starts no runner.                                 *)
(***************************************************************************)
\* the payload of q holds a value the conversion of its parameter rejects;
\* lst_min and lst_max are integers (DEFAULT_PARAMS, lines 66-67)
InvalidType(q) ==
    /\ q.method = "POST"
    /\ \E k \in PayloadKeys : q.data[k].t # "absent" /\ ~Conv(k, q.data[k]).ok

C10_InvalidTypeRejected ==
    \A r \in Reqs :
        (th[r].pc # "new" /\ InvalidType(th[r].req))
            => th[r].resp = "error_400" /\ th[r].pc = "A303"

(***************************************************************************)
(* C11: a run request whose payload holds an out-of-range parameter        *)
(* (num_sites < 1, percentile or cloud_cover outside 0..100, an LST band   *)
(* with min > max) and that arrives while no run is in progress is         *)
(* answered with the configuration error of line 303 and starts no runner. *)
(***************************************************************************)
\* the payload of q converts, and a value of it is out of range
OutOfRange(q) ==
    LET has(k) == q.data[k].t # "absent"
        val(k) == Conv(k, q.data[k]).val
    IN /\ q.method = "POST"
       /\ \A k \in PayloadKeys : has(k) => Conv(k, q.data[k]).ok
       /\ \/ has("num_sites") /\ val("num_sites") < 1
          \/ has("percentile") /\ val("percentile") \notin 0..100
          \/ has("cloud_cover") /\ val("cloud_cover") \notin 0..100
          \/ has("min_lst") /\ has("max_lst") /\ val("min_lst") > val("max_lst")
          \/ has("lst_min") /\ has("lst_max") /\ val("lst_min") > val("lst_max")

C11_OutOfRangeRejected ==
    \A r \in Reqs :
        (th[r].pc # "new" /\ OutOfRange(th[r].req) /\ th[r].resp # "already_running")
            => th[r].resp = "error_400" /\ th[r].pc = "A303"

(***************************************************************************)
(* C12: api_status runs in every state, and no step of it changes a field  *)
(* of pipeline, an output file or last_run_params.json.                    *)
(***************************************************************************)
C12_StatusReadOnly ==
    /\ [](ENABLED api_status)
    /\ [][rd' # rd =>
            UNCHANGED <<pipeline, geojson, mapfile, features, last_run_params>>]_vars

\* a status query was answered from start to end while a run was in progress
C12_Witness ==
    /\ rd.pc = "S259" /\ rd.sites >= 0
    /\ rd.status = "running" /\ rd.progress = 60
    /\ pipeline.status = "running"
    /\ \E r \in Reqs : th[r].pc = "W159"

(***************************************************************************)
(* C13: the answer of a run request is given when the runner is started,   *)
(* before the runner's first step, it is one of "started",                 *)
(* "already_running" or an error of the request, and it is never changed   *)
(* afterwards, whatever the outcome of the run.                            *)
(***************************************************************************)
C13_AnsweredAtOnce ==
    /\ [](\A r \in Reqs :
            /\ (th[r].force /\ Live(r)) => th[r].resp = "started"
            /\ th[r].resp \in {None, "started", "already_running",
                               "error_400", "error_500"})
    /\ [][\A r \in Reqs : th[r].resp # None => th'[r].resp = th[r].resp]_vars

\* a request has its answer "started" while its run is waiting for scoring.py
C13_Witness ==
    \E r \in Reqs :
        /\ th[r].resp = "started" /\ th[r].pc = "W159"
        /\ pipeline.status = "running"

(***************************************************************************)
(* C14: pipeline["params"] changes only in a step of a runner all of whose *)
(* scripts succeeded; when a run has ended in error and no runner is live, *)
(* it equals the parameters of the last successful run, which are the      *)
(* content of last_run_params.json, or the defaults.                       *)
(***************************************************************************)
C14_ParamsOnlyOnSuccess ==
    /\ [][pipeline'.params # pipeline.params =>
            \E r \in Reqs :
                /\ th[r].pc \in {"L172", "L173", "L174", "L175", "L177"}
                /\ Moves(r)]_vars
    /\ [](\A r \in Reqs :
            (th[r].pc = "R170" /\ \A o \in Reqs : ~Live(o))
                => pipeline.params = last_run_params.content)

(***************************************************************************)
(* C15: no step deletes scored_sites.geojson or sweet_spot_map.html; the   *)
(* failure of a script and the except clause of the runner leave both and  *)
(* the stored features as they are; line 168 stores the failure detail as  *)
(* it was raised, and api_status answers with the error field as it stands.*)
(***************************************************************************)
C15_FailedRunKeepsOutputs ==
    /\ [][(geojson => geojson') /\ (mapfile => mapfile')]_vars
    /\ [][\A r \in Reqs :
            /\ (Moves(r) /\ th'[r].pc \in {"L166", "L167", "L168", "R170"})
                  => UNCHANGED <<geojson, mapfile, features>>
            /\ (th[r].pc = "L168" /\ Moves(r)) => pipeline'.error = th[r].e]_vars
    /\ [][(rd.pc = "S263" /\ rd' # rd) => rd'.error = pipeline.error]_vars

\* the first run failed in scoring.py with both outputs of the previous
\* session in place, and a status query has answered with the failure detail
C15_Witness ==
    /\ th[1].pc = "R170" /\ th[1].launched = 1 /\ th[1].succeeded = 0
    /\ \A r \in Reqs : r # 1 => th[r].pc = "new"
    /\ geojson /\ mapfile /\ features # <<>>
    /\ pipeline.status = "error" /\ pipeline.error # None
    /\ rd.pc = "S259" /\ rd.sites >= 0
    /\ rd.status = "error" /\ rd.error = pipeline.error /\ rd.map_ready

(***************************************************************************)
(* C16: a runner whose scoring.py found zero images is on the failure path *)
(* with the message of scoring.py line 82: it started one script, none     *)
(* succeeded, it writes status "error" and that message into the error     *)
(* field, and it returns at line 170 without starting visualize.py.        *)
(***************************************************************************)
C16_NoImagesFailsRun ==
    /\ [](\A r \in Reqs :
            th[r].images = 0 =>
                /\ th[r].pc \in {"L166", "L167", "L168", "R170"}
                /\ th[r].launched = 1 /\ th[r].succeeded = 0
                /\ (th[r].pc # "R170" => th[r].e = NoImages))
    /\ [][\A r \in Reqs :
            (th[r].images = 0 /\ Moves(r)) =>
                /\ (th[r].pc = "L166" => pipeline'.status = "error")
                /\ (th[r].pc = "L168" => /\ pipeline'.error = NoImages
                                         /\ th'[r].pc = "R170")]_vars

\* a run has ended on zero images: status error, the message in the error
\* field, one script started
C16_Witness ==
    \E r \in Reqs :
        /\ th[r].pc = "R170" /\ th[r].images = 0 /\ th[r].launched = 1
        /\ pipeline.status = "error" /\ pipeline.error = NoImages
        /\ ~mapfile

(***************************************************************************)
(* C17: a normalisation of scoring.py on a field whose minimum equals its  *)
(* maximum yields 50 for every pixel and divides by no zero.               *)
(***************************************************************************)
Degenerate(f) == f # <<>> /\ FieldMin(f) = FieldMax(f)

C17_DegenerateIsFifty ==
    /\ (raster.pc \in {"grid", "done"} /\ Degenerate(raster.lst)) =>
          /\ \A k \in DOMAIN raster.lst_score : raster.lst_score[k] = 50
          /\ ~raster.zero_div
    /\ (raster.pc = "done" /\ Degenerate(raster.pop)) =>
          /\ \A k \in DOMAIN raster.grid_score : raster.grid_score[k] = 50
          /\ ~raster.zero_div

(***************************************************************************)
(* C18: the list load_sites returns has at most num_sites entries, is      *)
(* ordered by score descending and carries the ranks 1..k in list order.   *)
(***************************************************************************)
C18_ListingRanked ==
    listing.served =>
        LET s == listing.sites
        IN /\ Len(s) <= pipeline.params["num_sites"]
           /\ \A i, j \in DOMAIN s : i < j => s[i].gps >= s[j].gps
           /\ \A i \in DOMAIN s : s[i].rank = i

(***************************************************************************)
(* C19: the tier of every listed site is the one the thresholds give for   *)
(* its listed one-decimal score: at least 85.0 Excellent, at least 70.0    *)
(* Very Good, at least 60.0 Good, otherwise Moderate.                      *)
(***************************************************************************)
\* the thresholds on a score in tenths
TierOfReported(gps) ==
    IF gps >= 850 THEN "Excellent"
    ELSE IF gps >= 700 THEN "Very Good"
    ELSE IF gps >= 600 THEN "Good"
    ELSE "Moderate"

C19_TierFromReported ==
    listing.served =>
        \A i \in DOMAIN listing.sites :
            listing.sites[i].tier = TierOfReported(listing.sites[i].gps)

(***************************************************************************)
(* C20: the environment a runner started by a request hands to the scripts *)
(* holds, for every parameter of DEFAULT_PARAMS, the value the payload     *)
(* gives under that name, and the default when the payload omits it.       *)
(***************************************************************************)
\* the variable of lines 118-137 that carries the parameter named k
EnvName(k) ==
    CASE k = "cloud_cover" -> "GEOPULSE_CLOUD_COVER"
      [] k = "weight_lst"  -> "GEOPULSE_WEIGHT_LST"
      [] k = "num_sites"   -> "GEOPULSE_NUM_SITES"
      [] k = "percentile"  -> "GEOPULSE_PERCENTILE"
      [] k = "lst_min"     -> "GEOPULSE_MIN_LST"
      [] k = "lst_max"     -> "GEOPULSE_MAX_LST"

C20_OverridesUsed ==
    \A r \in Reqs :
        (th[r].force /\ Live(r) /\ DOMAIN th[r].p # {}) =>
            \A k \in DOMAIN DEFAULT_PARAMS :
                Env(th[r].p)[EnvName(k)] =
                    IF th[r].req.method = "POST" /\ th[r].req.data[k].t # "absent"
                    THEN Conv(k, th[r].req.data[k]).val
                    ELSE DEFAULT_PARAMS[k]

(***************************************************************************)
(* C21: in every reachable state, status "done" comes with a null error    *)
(* field and status "error" with a non-null one.                           *)
(***************************************************************************)
C21_ErrorMatchesStatus ==
    /\ pipeline.status = "done" => pipeline.error = None
    /\ pipeline.status = "error" => pipeline.error # None

(***************************************************************************)
(* C22: every answer of api_status that reports status "done" reports      *)
(* progress 100.                                                           *)
(***************************************************************************)
C22_DoneMeansComplete ==
    (rd.pc = "S259" /\ rd.sites >= 0 /\ rd.status = "done") => rd.progress = 100

====
